---- MODULE Spec2Model ----
(***************************************************************************)
(* Model of the course recommender (src/course_recommender.py) and of the  *)
(* corpus partitioner (src/Split_initial_Json.py).                         *)
(*                                                                         *)
(* Text is a sequence of atoms.  An atom is one punctuation character      *)
(* ( [ ] { } , : " ), one blank, one digit, or one run of letters such as  *)
(* "Mathematics" that the code never looks inside.  A regular expression   *)
(* or the JSON parser therefore sees the text exactly as the Python code   *)
(* sees its characters: brackets, braces and quotes one by one.            *)
(*                                                                         *)
(* A Python value is a tagged record: JStr (a str), JNum (an int), JArr (a *)
(* list), JObj (a dict, as its items in insertion order, keys unique).     *)
(***************************************************************************)
EXTENDS Integers, Sequences, FiniteSets, TLC

VARIABLES
    pc,                    \* where the running program is
    text,                  \* extractor: the reply text handed to the extraction step
    embedded,              \* extractor: the JSON value the reply text was built around
    extracted,             \* extractor: what extraction + parsing gave
    max_retries,           \* client: the max_retries argument of _call_claude_api
    stub,                  \* the completion service: raises on its first stub.fails calls, then returns stub.text
    api,                   \* what the last _call_claude_api returned, with the calls and sleeps it made
    invocations,           \* how often the current stage (department) invoked _call_claude_api
    response,              \* local `response` of the running stage
    departments_result,    \* what select_departments returned
    selected_departments,  \* argument of select_courses_with_prerequisites
    dept_index,            \* position of the for loop over selected_departments
    department_courses,    \* what _load_department_courses returned for the current department
    all_selected_courses,  \* accumulator of select_courses_with_prerequisites
    dept_log,              \* per processed department: what happened to it
    courses_with_prereqs,  \* argument of create_learning_roadmap
    roadmap_result,        \* what create_learning_roadmap returned
    courses_data,          \* partitioner: the loaded course records
    course_index,          \* partitioner: position of the for loop over courses_data
    departments,           \* partitioner: the defaultdict of groups
    dept_name,             \* sanitizer: the name handed to clean_filename
    clean_dept_name        \* sanitizer: what clean_filename returned

vars == <<pc, text, embedded, extracted, max_retries, stub, api, invocations,
          response, departments_result, selected_departments, dept_index,
          department_courses, all_selected_courses, dept_log,
          courses_with_prereqs, roadmap_result, courses_data, course_index,
          departments, dept_name, clean_dept_name>>

-----------------------------------------------------------------------------
(* Python values *)

JStr(s) == [t |-> "str", v |-> s]
JNum(d) == [t |-> "num", v |-> d]
JArr(s) == [t |-> "arr", v |-> s]
JObj(s) == [t |-> "obj", v |-> s]

\* A one-atom string, the shape of every name and title of the model.
Word(a) == JStr(<<a>>)

Min(a, b) == IF a < b THEN a ELSE b

RECURSIVE IndexFrom(_, _, _)
\* str.find(a, i): the first position >= i holding atom a, 0 when there is none.
IndexFrom(s, a, i) ==
    IF i > Len(s) THEN 0
    ELSE IF s[i] = a THEN i
    ELSE IndexFrom(s, a, i + 1)

RECURSIVE LastIndexOf(_, _, _)
\* The last position <= i holding atom a, 0 when there is none.
LastIndexOf(s, a, i) ==
    IF i < 1 THEN 0
    ELSE IF s[i] = a THEN i
    ELSE LastIndexOf(s, a, i - 1)

RECURSIVE KeyIndex(_, _, _)
\* Position of key k among the items of a dict, 0 when absent.
KeyIndex(items, k, i) ==
    IF i > Len(items) THEN 0
    ELSE IF items[i][1] = k THEN i
    ELSE KeyIndex(items, k, i + 1)

\* d[k] = val on a dict: a present key keeps its place and takes the new value.
DictPut(items, k, val) ==
    LET i == KeyIndex(items, k, 1)
    IN  IF i = 0 THEN Append(items, <<k, val>>)
        ELSE [items EXCEPT ![i] = <<k, val>>]

\* dict.get(k, default)
DictGet(items, k, default) ==
    LET i == KeyIndex(items, k, 1)
    IN  IF i = 0 THEN default ELSE items[i][2]

-----------------------------------------------------------------------------
(* json.loads: the JSON grammar over atoms.  Blanks between tokens are     *)
(* skipped, a string runs from a quote to the next quote, a number is "0"  *)
(* or a digit run that starts with a non-zero digit.                       *)

Digits == {"0", "1"}

NoParse == [ok |-> FALSE, val |-> JArr(<<>>), next |-> 0]
Parsed(val, next) == [ok |-> TRUE, val |-> val, next |-> next]

RECURSIVE SkipWs(_, _)
SkipWs(s, i) ==
    IF i <= Len(s) /\ s[i] = " " THEN SkipWs(s, i + 1) ELSE i

RECURSIVE DigitsEnd(_, _)
DigitsEnd(s, i) ==
    IF i <= Len(s) /\ s[i] \in Digits THEN DigitsEnd(s, i + 1) ELSE i

ParseString(s, i) ==
    LET j == IndexFrom(s, "\"", i + 1)
    IN  IF j = 0 THEN NoParse
        ELSE Parsed(JStr(SubSeq(s, i + 1, j - 1)), j + 1)

ParseNumber(s, i) ==
    LET j == IF s[i] = "0" THEN i + 1 ELSE DigitsEnd(s, i)
    IN  Parsed(JNum(SubSeq(s, i, j - 1)), j)

RECURSIVE ParseValue(_, _)
RECURSIVE ParseElems(_, _, _)
RECURSIVE ParseMembers(_, _, _)

\* One JSON value starting at position i (blanks already skipped).
ParseValue(s, i) ==
    IF i > Len(s) THEN NoParse
    ELSE IF s[i] = "\"" THEN ParseString(s, i)
    ELSE IF s[i] \in Digits THEN ParseNumber(s, i)
    ELSE IF s[i] = "[" THEN
        LET j == SkipWs(s, i + 1)
        IN  IF j <= Len(s) /\ s[j] = "]" THEN Parsed(JArr(<<>>), j + 1)
            ELSE ParseElems(s, j, <<>>)
    ELSE IF s[i] = "{" THEN
        LET j == SkipWs(s, i + 1)
        IN  IF j <= Len(s) /\ s[j] = "}" THEN Parsed(JObj(<<>>), j + 1)
            ELSE ParseMembers(s, j, <<>>)
    ELSE NoParse

\* The elements of an array from position i on, up to its closing bracket.
ParseElems(s, i, acc) ==
    LET e == ParseValue(s, i)
        j == SkipWs(s, e.next)
    IN  IF ~e.ok \/ j > Len(s) THEN NoParse
        ELSE IF s[j] = "," THEN ParseElems(s, SkipWs(s, j + 1), Append(acc, e.val))
        ELSE IF s[j] = "]" THEN Parsed(JArr(Append(acc, e.val)), j + 1)
        ELSE NoParse

\* The members of an object from position i on, up to its closing brace.
ParseMembers(s, i, acc) ==
    IF i > Len(s) \/ s[i] # "\"" THEN NoParse
    ELSE
        LET k == ParseString(s, i)
            c == SkipWs(s, k.next)
        IN  IF ~k.ok \/ c > Len(s) \/ s[c] # ":" THEN NoParse
            ELSE
                LET e == ParseValue(s, SkipWs(s, c + 1))
                    j == SkipWs(s, e.next)
                IN  IF ~e.ok \/ j > Len(s) THEN NoParse
                    ELSE IF s[j] = "," THEN
                        ParseMembers(s, SkipWs(s, j + 1), DictPut(acc, k.val.v, e.val))
                    ELSE IF s[j] = "}" THEN
                        Parsed(JObj(DictPut(acc, k.val.v, e.val)), j + 1)
                    ELSE NoParse

\* json.loads(s): ok is FALSE where Python raises JSONDecodeError.
JsonLoads(s) ==
    LET e == ParseValue(s, SkipWs(s, 1))
    IN  IF e.ok /\ SkipWs(s, e.next) = Len(s) + 1
        THEN [ok |-> TRUE, val |-> e.val]
        ELSE [ok |-> FALSE, val |-> JArr(<<>>)]

RECURSIVE Dumps(_)
RECURSIVE DumpsList(_, _)
RECURSIVE DumpsItems(_, _)
\* The JSON text of a value, as a completion reply would carry it.
Dumps(val) ==
    IF val.t = "str" THEN <<"\"">> \o val.v \o <<"\"">>
    ELSE IF val.t = "num" THEN val.v
    ELSE IF val.t = "arr" THEN <<"[">> \o DumpsList(val.v, 1) \o <<"]">>
    ELSE <<"{">> \o DumpsItems(val.v, 1) \o <<"}">>

DumpsList(s, i) ==
    IF i > Len(s) THEN <<>>
    ELSE Dumps(s[i]) \o (IF i < Len(s) THEN <<",", " ">> ELSE <<>>) \o DumpsList(s, i + 1)

DumpsItems(s, i) ==
    IF i > Len(s) THEN <<>>
    ELSE <<"\"">> \o s[i][1] \o <<"\"", ":", " ">> \o Dumps(s[i][2])
         \o (IF i < Len(s) THEN <<",", " ">> ELSE <<>>) \o DumpsItems(s, i + 1)

-----------------------------------------------------------------------------
(* The extraction step: re.search over the reply text *)

NoMatch == [found |-> FALSE, group |-> <<>>]

\* re.search(r'\[.*?\]', response, re.DOTALL): from the first "[" that has a
\* "]" after it, to the first "]" after it.
SearchArray(r) ==
    LET i == IndexFrom(r, "[", 1)
        j == IF i = 0 THEN 0 ELSE IndexFrom(r, "]", i + 1)
    IN  IF j = 0 THEN NoMatch
        ELSE [found |-> TRUE, group |-> SubSeq(r, i, j)]

\* re.search(r'\{.*\}', response, re.DOTALL): from the first "{" that has a
\* "}" after it, to the last "}" of the text.
SearchObject(r) ==
    LET i == IndexFrom(r, "{", 1)
        j == LastIndexOf(r, "}", Len(r))
    IN  IF i = 0 \/ j < i THEN NoMatch
        ELSE [found |-> TRUE, group |-> SubSeq(r, i, j)]

NotExtracted == [ok |-> FALSE, val |-> JArr(<<>>)]

\* json_match = re.search(...); json.loads(json_match.group()) of the array stages.
ExtractArray(r) ==
    LET m == SearchArray(r)
    IN  IF m.found THEN JsonLoads(m.group) ELSE NotExtracted

\* The same of create_learning_roadmap.
ExtractObject(r) ==
    LET m == SearchObject(r)
    IN  IF m.found THEN JsonLoads(m.group) ELSE NotExtracted

-----------------------------------------------------------------------------
(* Bounds of the model *)

MaxRetriesBound == 4   \* the client is called with max_retries in 1..MaxRetriesBound
MaxArrLen == 4         \* a department reply lists at most this many names
MaxDepts == 2          \* select_courses_with_prerequisites gets at most this many departments
MaxJunkLen == 2        \* every text of at most this many atoms is a possible reply
MaxCourses == 2        \* the partitioner's corpus holds at most this many records
MaxNames == 2          \* a course record lists at most this many department names

RECURSIVE SeqsUpTo(_, _)
\* Every sequence over S of length at most n.
SeqsUpTo(S, n) ==
    IF n = 0 THEN {<<>>}
    ELSE LET T == SeqsUpTo(S, n - 1)
         IN  T \cup {Append(s, a) : s \in {u \in T : Len(u) = n - 1}, a \in S}

-----------------------------------------------------------------------------
(* The department catalog and the texts the completion service may send *)

\* self.available_departments: three of its 38 keys stand for all of them.
available_departments == {<<"Mathematics">>, <<"Physics">>, <<"Biology">>}

\* The prose a reply may put before and after its JSON.
Prose == {<<>>, <<"Sure">>, <<"[", "1", "]">>, <<"{">>, <<"}">>}

Embed(pre, val, post) == pre \o Dumps(val) \o post

EmbedAll(Values) == {Embed(pre, val, post) : pre \in Prose, val \in Values, post \in Prose}

JunkAtoms == {"[", "]", "{", "}", "1"}
Junk == SeqsUpTo(JunkAtoms, MaxJunkLen)

\* What the model may list in a department reply: catalog keys, and a name
\* the catalog does not hold.
DeptElems == {Word("Mathematics"), Word("Physics"), Word("Astrology")}

DeptArrays ==
    {JArr(s) : s \in SeqsUpTo(DeptElems, MaxArrLen)}
    \cup {JArr(<<Word("Mathematics"), JObj(<<>>)>>),
          JArr(<<Word("Mathematics"), JArr(<<Word("Physics")>>)>>),
          JArr(<<JNum(<<"1">>), Word("Mathematics")>>)}

\* Course records as the Stage 2 prompt asks for them, and the shapes a
\* model may return instead.
CourseElems ==
    {JObj(<< <<(<<"course_title">>), Word("Calculus")>> >>),
     JObj(<< <<(<<"course_title">>), Word("Algebra")>>,
             <<(<<"prerequisites">>), JArr(<<Word("Calculus")>>)>> >>),
     JObj(<< <<(<<"course_title">>), Word("Algebra")>>,
             <<(<<"prerequisites">>), Word("Calculus")>> >>),
     JObj(<< <<(<<"prerequisites">>), JNum(<<"1">>)>> >>),
     Word("Calculus")}

CourseArrays == {JArr(s) : s \in SeqsUpTo(CourseElems, 1)}
    \cup {JArr(<<JObj(<< <<(<<"course_title">>), Word("Calculus")>> >>),
                 JObj(<< <<(<<"course_title">>), Word("Algebra")>>,
                         <<(<<"prerequisites">>), Word("Calculus")>> >>)>>)}

\* Roadmap objects: flat, with nested levels, and an array instead.
RoadmapValues ==
    {JObj(<<>>),
     JObj(<< <<(<<"total_estimated_time">>), Word("Year")>> >>),
     JObj(<< <<(<<"roadmap">>), JObj(<< <<(<<"levels">>), JArr(<<>>)>> >>)>> >>),
     JObj(<< <<(<<"roadmap">>),
               JObj(<< <<(<<"levels">>),
                         JArr(<<JObj(<< <<(<<"level">>), JNum(<<"1">>)>> >>)>>)>> >>)>>,
             <<(<<"total_estimated_time">>), Word("Year")>> >>),
     JArr(<<Word("Calculus")>>)}

DepartmentReplies == Junk \cup EmbedAll(DeptArrays)
CourseReplies == Junk \cup EmbedAll(CourseArrays)
RoadmapReplies == Junk \cup EmbedAll(RoadmapValues)

-----------------------------------------------------------------------------
(* The Completion Client: _call_claude_api *)

\* DEFAULT: max_retries: int = 3
DefaultMaxRetries == 3

\* What the stub service does on its n-th call (n from 1).
ServiceRaises(st, n) == n <= st.fails

\* time.sleep(2 ** attempt)
BackoffDelayFlat(attempt) == 1
BackoffDelay(attempt) == 2 ^ attempt

\* `if attempt < max_retries - 1` fails: the attempt that just failed was the last.
LastAttemptEarly(attempt, maxr) == attempt >= maxr - 2
LastAttempt(attempt, maxr) == attempt >= maxr - 1

ApiNone(calls, sleeps) == [some |-> FALSE, text |-> <<>>, calls |-> calls, sleeps |-> sleeps]
ApiText(txt, calls, sleeps) == [some |-> TRUE, text |-> txt, calls |-> calls, sleeps |-> sleeps]
NoApiCall == ApiNone(0, <<>>)

RECURSIVE Attempt(_, _, _, _)
\* The body of `for attempt in range(max_retries)` from `attempt` on.
Attempt(st, maxr, attempt, sleeps) ==
    IF attempt >= maxr THEN ApiNone(attempt, sleeps)
    ELSE IF ~ServiceRaises(st, attempt + 1) THEN ApiText(st.text, attempt + 1, sleeps)
    ELSE IF LastAttempt(attempt, maxr) THEN ApiNone(attempt + 1, sleeps)
    ELSE Attempt(st, maxr, attempt + 1, Append(sleeps, BackoffDelay(attempt)))

\* The loop written as `for attempt in range(max_retries + 1)`.
CallClaudeApiExtra(st, maxr) == Attempt(st, maxr + 1, 0, <<>>)
CallClaudeApi(st, maxr) == Attempt(st, maxr, 0, <<>>)

\* `if response:` : None and the empty string are both falsy.
Truthy(r) == r.some /\ r.text # <<>>

-----------------------------------------------------------------------------
(* Stage 1: select_departments *)

\* A dict or a list is unhashable: `dept in self.available_departments`
\* raises TypeError on it.
Hashable(val) == val.t \in {"str", "num"}

\* `dept in self.available_departments`
AnyDepartment(val) == TRUE
InCatalog(val) == val.t = "str" /\ val.v \in available_departments

\* valid_departments[:3]
FirstThree(s) == SubSeq(s, 1, Min(3, Len(s)))

\* `return []` of both failure paths
NoDepartments == <<>>

\* What select_departments returns once _call_claude_api returned r.
SelectDepartmentsReturn(r) ==
    IF ~Truthy(r) THEN NoDepartments
    ELSE LET m == SearchArray(r.text)
         IN  IF ~m.found THEN NoDepartments
             ELSE LET p == JsonLoads(m.group)
                  IN  IF ~p.ok THEN NoDepartments
                      ELSE IF \E i \in 1..Len(p.val.v) : ~Hashable(p.val.v[i])
                           THEN NoDepartments
                      ELSE FirstThree(SelectSeq(p.val.v, InCatalog))

-----------------------------------------------------------------------------
(* Stage 2: select_courses_with_prerequisites *)

\* department_courses[:50]
MaxPromptCourses == 50

\* A corpus file: absent, or present with some content.
NoFile == [exists |-> FALSE, content |-> <<>>]
File(content) == [exists |-> TRUE, content |-> content]

CorpusFiles ==
    {NoFile, File(<<>>), File(<<"[">>), File(<<"0">>), File(<<"1">>)}
    \cup {File(Dumps(val)) : val \in
            {JArr(<<>>),
             JArr(<<JObj(<<>>)>>),
             JArr(<<JObj(<< <<(<<"title">>), Word("Calculus")>> >>),
                    JObj(<< <<(<<"title">>), Word("Algebra")>>,
                            <<(<<"short_description">>), Word("Groups")>> >>)>>),
             JArr(<<JObj(<<>>), JNum(<<"1">>)>>),
             JObj(<< <<(<<"title">>), Word("Calculus")>> >>),
             Word("Calculus")}}

\* _load_department_courses: [] for a missing file and for one json.load rejects.
LoadDepartmentCourses(f) ==
    IF ~f.exists THEN JArr(<<>>)
    ELSE LET p == JsonLoads(f.content)
         IN  IF p.ok THEN p.val ELSE JArr(<<>>)

\* `not x` of Python: the empty list, dict and string, and zero.
Falsy(val) ==
    IF val.t = "num" THEN val.v = <<"0">> ELSE val.v = <<>>

\* Whether building courses_text raises: slicing a dict or an int does, and so
\* does .get on anything that is not a dict (an element of a list, a
\* character of a string) among the first 50.
CoursesTextRaises(dc) ==
    IF dc.t = "arr"
    THEN \E i \in 1..Min(MaxPromptCourses, Len(dc.v)) : dc.v[i].t # "obj"
    ELSE TRUE

\* all_selected_courses.extend(courses)
Extend(acc, courses) == acc \o courses

\* What one department contributes once _call_claude_api returned r.
DepartmentOutcome(r) ==
    IF ~r.some THEN [outcome |-> "api_failed", courses |-> <<>>]
    ELSE LET p == IF Truthy(r) THEN ExtractArray(r.text) ELSE NotExtracted
         IN  IF p.ok THEN [outcome |-> "selected", courses |-> p.val.v]
             ELSE [outcome |-> "unparseable", courses |-> <<>>]

LogEntry(dept, o) == [department |-> dept, outcome |-> o.outcome, courses |-> o.courses]

\* `continue`: the loop goes on with the next department (a `break` would
\* leave the loop).
StopAfter(i, n) == n + 1
NextDepartment(i, n) == i + 1

\* The department lists Stage 2 is called with: a prefix of DeptOrder.
DeptOrder == <<(<<"Mathematics">>), (<<"Physics">>), (<<"Biology">>), (<<"Astrology">>)>>
DeptSeqs == {SubSeq(DeptOrder, 1, n) : n \in 0..Min(MaxDepts, Len(DeptOrder))}

-----------------------------------------------------------------------------
(* Stage 3: create_learning_roadmap *)

\* `if not courses_with_prereqs`
NeverEmpty(courses) == FALSE
NoCourses(courses) == courses = <<>>

\* ", ".join(x) works on a str, on a dict (its keys) and on a list of str.
Joinable(val) ==
    \/ val.t \in {"str", "obj"}
    \/ val.t = "arr" /\ \A i \in 1..Len(val.v) : val.v[i].t = "str"

\* Whether building courses_text raises: .get on an element that is no dict,
\* or joining prerequisites that are no iterable of strings.
RoadmapTextRaises(courses) ==
    \E i \in 1..Len(courses) :
        \/ courses[i].t # "obj"
        \/ ~Joinable(DictGet(courses[i].v, <<"prerequisites">>, JArr(<<>>)))

RoadmapError(msg) == [error |-> TRUE, message |-> msg, roadmap |-> JObj(<<>>)]
Roadmap(val) == [error |-> FALSE, message |-> "", roadmap |-> val]
NoRoadmap == RoadmapError("not called")

\* {"error": "Failed to create roadmap"}
EmptyRoadmap == Roadmap(JObj(<<>>))
RoadmapFailed == RoadmapError("Failed to create roadmap")

\* What create_learning_roadmap returns once _call_claude_api returned r.
CreateLearningRoadmapReturn(r) ==
    IF ~Truthy(r) THEN RoadmapFailed
    ELSE LET m == SearchObject(r.text)
         IN  IF ~m.found THEN RoadmapFailed
             ELSE LET p == JsonLoads(m.group)
                  IN  IF p.ok THEN Roadmap(p.val)
                      ELSE RoadmapError("Roadmap creation failed")

-----------------------------------------------------------------------------
(* The pipeline as a state machine *)

\* The service stubs of a stage: k failures and then the reply r, or nothing
\* but failures.
Stubs(Replies) ==
    {[fails |-> k, text |-> r] : k \in 0..(DefaultMaxRetries - 1), r \in Replies}
    \cup {[fails |-> DefaultMaxRetries, text |-> <<>>]}
NoStub == [fails |-> 0, text |-> <<>>]
NoValue == JArr(<<>>)
NoEmbedded == JArr(<<>>)

ExtractorIdle ==
    /\ text = <<>>
    /\ embedded = NoEmbedded
    /\ extracted = NotExtracted
ClientIdle ==
    /\ max_retries = DefaultMaxRetries
PartitionerIdle ==
    /\ courses_data = <<>>
    /\ course_index = 1
    /\ departments = <<>>
SanitizerIdle ==
    /\ dept_name = <<>>
    /\ clean_dept_name = <<>>
PipelineIdle ==
    /\ stub = NoStub
    /\ api = NoApiCall
    /\ invocations = 0
    /\ response = NoApiCall
    /\ departments_result = <<>>
    /\ selected_departments = <<>>
    /\ dept_index = 1
    /\ department_courses = NoValue
    /\ all_selected_courses = <<>>
    /\ dept_log = <<>>
    /\ courses_with_prereqs = <<>>
    /\ roadmap_result = NoRoadmap

\* The state after CourseRecommendationSystem.__init__.
Init ==
    /\ pc = "idle"
    /\ PipelineIdle
    /\ ExtractorIdle
    /\ ClientIdle
    /\ PartitionerIdle
    /\ SanitizerIdle

others == <<text, embedded, extracted, max_retries, courses_data, course_index, departments,
            dept_name, clean_dept_name>>
stage2 == <<selected_departments, dept_index, department_courses, all_selected_courses, dept_log>>

\* select_departments, from the call to its return.
SelectDepartments ==
    /\ pc = "idle"
    /\ \E st \in Stubs(DepartmentReplies) :
        /\ stub' = st
        /\ api' = CallClaudeApi(st, DefaultMaxRetries)
    /\ invocations' = 1
    /\ response' = api'
    /\ departments_result' = SelectDepartmentsReturn(api')
    /\ pc' = "s1_done"
    /\ UNCHANGED <<stage2, courses_with_prereqs, roadmap_result, others>>

\* select_courses_with_prerequisites is called: the lines before its loop.
StartCourseSelection ==
    /\ pc = "idle"
    /\ \E ds \in DeptSeqs : selected_departments' = ds
    /\ dept_index' = 1
    /\ all_selected_courses' = <<>>
    /\ dept_log' = <<>>
    /\ pc' = "s2_loop"
    /\ UNCHANGED <<stub, api, invocations, response, departments_result,
                   department_courses, courses_with_prereqs, roadmap_result, others>>

\* One pass of the loop up to the prompt: the corpus file is read, an empty
\* corpus skips the department, and the course list is put into the prompt
\* (a fault there leaves the function: it is outside every try).
LoadDepartment ==
    /\ pc = "s2_loop"
    /\ dept_index <= Len(selected_departments)
    /\ \E f \in CorpusFiles : department_courses' = LoadDepartmentCourses(f)
    /\ stub' = NoStub
    /\ api' = NoApiCall
    /\ response' = NoApiCall
    /\ invocations' = 0
    /\ IF Falsy(department_courses')
       THEN /\ dept_log' = Append(dept_log,
                  LogEntry(selected_departments[dept_index],
                           [outcome |-> "no_corpus", courses |-> <<>>]))
            /\ dept_index' = NextDepartment(dept_index, Len(selected_departments))
            /\ pc' = "s2_loop"
       ELSE /\ pc' = IF CoursesTextRaises(department_courses') THEN "raised" ELSE "s2_call"
            /\ UNCHANGED <<dept_log, dept_index>>
    /\ UNCHANGED <<departments_result, selected_departments, all_selected_courses,
                   courses_with_prereqs, roadmap_result, others>>

\* The rest of the pass: the completion call, extraction, extend.
SelectCourses ==
    /\ pc = "s2_call"
    /\ \E st \in Stubs(CourseReplies) :
        /\ stub' = st
        /\ api' = CallClaudeApi(st, DefaultMaxRetries)
    /\ invocations' = invocations + 1
    /\ response' = api'
    /\ LET o == DepartmentOutcome(api')
       IN  /\ all_selected_courses' = Extend(all_selected_courses, o.courses)
           /\ dept_log' = Append(dept_log, LogEntry(selected_departments[dept_index], o))
    /\ dept_index' = NextDepartment(dept_index, Len(selected_departments))
    /\ pc' = "s2_loop"
    /\ UNCHANGED <<departments_result, selected_departments, department_courses,
                   courses_with_prereqs, roadmap_result, others>>

\* The loop is over: return all_selected_courses.
ReturnCourses ==
    /\ pc = "s2_loop"
    /\ dept_index > Len(selected_departments)
    /\ pc' = "s2_done"
    /\ stub' = NoStub
    /\ api' = NoApiCall
    /\ response' = NoApiCall
    /\ invocations' = 0
    /\ department_courses' = NoValue
    /\ UNCHANGED <<departments_result, selected_departments, dept_index,
                   all_selected_courses, dept_log, courses_with_prereqs,
                   roadmap_result, others>>

\* create_learning_roadmap on what select_courses_with_prerequisites returned,
\* from the call to its return (or to the fault that leaves it).
CreateLearningRoadmap ==
    /\ pc = "s2_done"
    /\ courses_with_prereqs' = all_selected_courses
    /\ selected_departments' = <<>>
    /\ dept_index' = 1
    /\ all_selected_courses' = <<>>
    /\ dept_log' = <<>>
    /\ IF NoCourses(all_selected_courses)
       THEN /\ roadmap_result' = RoadmapError("No courses provided for roadmap creation")
            /\ pc' = "s3_done"
            /\ UNCHANGED <<stub, api, invocations, response>>
       ELSE IF RoadmapTextRaises(all_selected_courses)
       THEN /\ pc' = "raised"
            /\ UNCHANGED <<stub, api, invocations, response, roadmap_result>>
       ELSE /\ \E st \in Stubs(RoadmapReplies) :
                /\ stub' = st
                /\ api' = CallClaudeApi(st, DefaultMaxRetries)
            /\ invocations' = invocations + 1
            /\ response' = api'
            /\ roadmap_result' = CreateLearningRoadmapReturn(api')
            /\ pc' = "s3_done"
    /\ UNCHANGED <<departments_result, department_courses, others>>

Next ==
    \/ SelectDepartments
    \/ StartCourseSelection
    \/ LoadDepartment
    \/ SelectCourses
    \/ ReturnCourses
    \/ CreateLearningRoadmap

Spec == Init /\ [][Next]_vars

-----------------------------------------------------------------------------
(* The extraction step on its own: a JSON value inside prose *)

MaxProseLen == 1       \* the prose before and after the JSON has at most this many atoms

ProseAtoms == {"Sure", "[", "]", "{", "}"}
SurroundingProse == SeqsUpTo(ProseAtoms, MaxProseLen)

\* Well-formed JSON values of the three stages.
EmbeddedValues ==
    {JArr(s) : s \in SeqsUpTo(DeptElems, 2)} \cup CourseArrays \cup RoadmapValues

InitExtractor ==
    /\ pc = "extract_ready"
    /\ embedded \in EmbeddedValues
    /\ text \in {Embed(pre, embedded, post) :
                    pre \in SurroundingProse, post \in SurroundingProse}
    /\ extracted = NotExtracted
    /\ PipelineIdle
    /\ ClientIdle
    /\ PartitionerIdle
    /\ SanitizerIdle

\* The extraction of select_departments and select_courses_with_prerequisites.
RunExtractArray ==
    /\ pc = "extract_ready"
    /\ embedded.t = "arr"
    /\ extracted' = ExtractArray(text)
    /\ pc' = "extracted"
    /\ UNCHANGED <<text, embedded, max_retries, stub, api, invocations, response,
                   departments_result, stage2, courses_with_prereqs, roadmap_result,
                   courses_data, course_index, departments, dept_name,
                   clean_dept_name>>

\* The extraction of create_learning_roadmap.
RunExtractObject ==
    /\ pc = "extract_ready"
    /\ embedded.t = "obj"
    /\ extracted' = ExtractObject(text)
    /\ pc' = "extracted"
    /\ UNCHANGED <<text, embedded, max_retries, stub, api, invocations, response,
                   departments_result, stage2, courses_with_prereqs, roadmap_result,
                   courses_data, course_index, departments, dept_name,
                   clean_dept_name>>

NextExtractor == RunExtractArray \/ RunExtractObject

SpecExtractor == InitExtractor /\ [][NextExtractor]_vars

-----------------------------------------------------------------------------
(* The Completion Client on its own, against a stub service *)

ClientReplies == Junk \cup {Dumps(JArr(<<Word("Mathematics")>>))}

InitClient ==
    /\ pc = "client_ready"
    /\ max_retries \in 1..MaxRetriesBound
    /\ stub \in {[fails |-> k, text |-> r] : k \in 0..MaxRetriesBound, r \in ClientReplies}
    /\ api = NoApiCall
    /\ invocations = 0
    /\ response = NoApiCall
    /\ departments_result = <<>>
    /\ selected_departments = <<>>
    /\ dept_index = 1
    /\ department_courses = NoValue
    /\ all_selected_courses = <<>>
    /\ dept_log = <<>>
    /\ courses_with_prereqs = <<>>
    /\ roadmap_result = NoRoadmap
    /\ ExtractorIdle
    /\ PartitionerIdle
    /\ SanitizerIdle

\* One call of _call_claude_api(prompt, max_retries), from entry to return.
ClientCall ==
    /\ pc = "client_ready"
    /\ api' = CallClaudeApi(stub, max_retries)
    /\ invocations' = invocations + 1
    /\ pc' = "client_done"
    /\ UNCHANGED <<text, embedded, extracted, max_retries, stub, response,
                   departments_result, stage2, courses_with_prereqs, roadmap_result,
                   courses_data, course_index, departments, dept_name,
                   clean_dept_name>>

NextClient == ClientCall

SpecClient == InitClient /\ [][NextClient]_vars

-----------------------------------------------------------------------------
(* The corpus partitioner: split_courses_by_department and clean_filename. *)
(* A department name is a sequence of characters here.                     *)

\* invalid_chars = '<>:"/\\|?*'
invalid_chars == {"<", ">", ":", "\"", "/", "\\", "|", "?", "*"}

\* for char in invalid_chars: filename = filename.replace(char, '_')
ReplaceInvalid(name) ==
    [i \in 1..Len(name) |-> IF name[i] \in invalid_chars THEN "_" ELSE name[i]]

RECURSIVE LStrip(_)
LStrip(name) ==
    IF name # <<>> /\ Head(name) = " " THEN LStrip(Tail(name)) ELSE name

RECURSIVE RStrip(_)
RStrip(name) ==
    IF name # <<>> /\ name[Len(name)] = " "
    THEN RStrip(SubSeq(name, 1, Len(name) - 1)) ELSE name

\* filename.strip()
Strip(name) == RStrip(LStrip(name))

\* .replace(' ', '_')
ReplaceBlanks(name) ==
    [i \in 1..Len(name) |-> IF name[i] = " " THEN "_" ELSE name[i]]

RECURSIVE ReplaceDouble(_)
\* filename.replace('__', '_'): one pass from the left, pairs do not overlap.
ReplaceDouble(name) ==
    IF Len(name) < 2 THEN name
    ELSE IF name[1] = "_" /\ name[2] = "_"
         THEN <<"_">> \o ReplaceDouble(SubSeq(name, 3, Len(name)))
         ELSE <<name[1]>> \o ReplaceDouble(Tail(name))

HasDouble(name) == \E i \in 1..(Len(name) - 1) : name[i] = "_" /\ name[i + 1] = "_"

\* A single filename.replace('__', '_') with no loop around it.
CollapseOnce(name) == ReplaceDouble(name)

RECURSIVE CollapseUnderscores(_)
\* while '__' in filename: filename = filename.replace('__', '_')
CollapseUnderscores(name) ==
    IF HasDouble(name) THEN CollapseUnderscores(ReplaceDouble(name)) ELSE name

clean_filename(filename) ==
    CollapseUnderscores(ReplaceBlanks(Strip(ReplaceInvalid(filename))))

\* The key of the catch-all group, 'Others'.
Others == <<"O", "t", "h", "e", "r", "s">>

\* The department names a corpus may hold.
CorpusNames == {<<"A", "/", "B">>, <<"A", ":", "B">>, Others}

\* A course record: with a department_name list that names no department
\* twice, or without the key.
CourseRecords ==
    {[has_department_name |-> TRUE, department_name |-> names] :
        names \in {l \in SeqsUpTo(CorpusNames, MaxNames) :
                      \A i, j \in 1..Len(l) : l[i] = l[j] => i = j}}
    \cup {[has_department_name |-> FALSE, department_name |-> <<>>]}

\* course.get('department_name', [])
DepartmentNames(course) ==
    IF course.has_department_name THEN course.department_name ELSE <<>>

\* departments[key].append(course) on the defaultdict(list); a course is kept
\* as its position in courses_data.
AppendToGroup(groups, key, course) ==
    IF key \in DOMAIN groups
    THEN [groups EXCEPT ![key] = Append(@, course)]
    ELSE (key :> <<course>>) @@ groups

RECURSIVE AddToDepartments(_, _, _, _)
\* for dept_name in department_names: departments[clean_filename(dept_name)].append(course)
AddToDepartments(groups, names, i, course) ==
    IF i > Len(names) THEN groups
    ELSE AddToDepartments(AppendToGroup(groups, clean_filename(names[i]), course),
                          names, i + 1, course)

InitPartitioner ==
    /\ pc = "split_loop"
    /\ courses_data \in SeqsUpTo(CourseRecords, MaxCourses)
    /\ course_index = 1
    /\ departments = <<>>
    /\ PipelineIdle
    /\ ExtractorIdle
    /\ ClientIdle
    /\ SanitizerIdle

\* One pass of `for course in courses_data`.
GroupCourse ==
    /\ pc = "split_loop"
    /\ course_index <= Len(courses_data)
    /\ LET department_names == DepartmentNames(courses_data[course_index])
       IN  departments' =
               IF department_names = <<>>
               THEN AppendToGroup(departments, Others, course_index)
               ELSE AddToDepartments(departments, department_names, 1, course_index)
    /\ course_index' = course_index + 1
    /\ UNCHANGED <<pc, courses_data, text, embedded, extracted, max_retries, stub, api,
                   invocations, response, departments_result, stage2,
                   courses_with_prereqs, roadmap_result, dept_name, clean_dept_name>>

\* The loop is over: every group is written to its file.
WriteGroups ==
    /\ pc = "split_loop"
    /\ course_index > Len(courses_data)
    /\ pc' = "split_done"
    /\ UNCHANGED <<courses_data, course_index, departments, text, embedded, extracted,
                   max_retries, stub, api, invocations, response, departments_result,
                   stage2, courses_with_prereqs, roadmap_result, dept_name,
                   clean_dept_name>>

NextPartitioner == GroupCourse \/ WriteGroups

SpecPartitioner == InitPartitioner /\ [][NextPartitioner]_vars

-----------------------------------------------------------------------------
(* clean_filename on its own, over every short department name *)

MaxNameLen == 3        \* a generated department name has at most this many characters

\* The characters of a generated name: every character of invalid_chars, the
\* blank, the underscore and a letter.
NameChars == invalid_chars \cup {" ", "_", "C"}

\* The department names handed to clean_filename.
SanitizerNames == SeqsUpTo(NameChars, MaxNameLen) \cup {<<"C", "/", "D", ":", "E">>}

InitSanitizer ==
    /\ pc = "clean_ready"
    /\ dept_name \in SanitizerNames
    /\ clean_dept_name = <<>>
    /\ PipelineIdle
    /\ ExtractorIdle
    /\ ClientIdle
    /\ PartitionerIdle

\* One call of clean_filename(dept_name), from entry to return.
CleanFilename ==
    /\ pc = "clean_ready"
    /\ clean_dept_name' = clean_filename(dept_name)
    /\ pc' = "cleaned"
    /\ UNCHANGED <<dept_name, text, embedded, extracted, max_retries, stub, api,
                   invocations, response, departments_result, stage2,
                   courses_with_prereqs, roadmap_result, courses_data, course_index,
                   departments>>

NextSanitizer == CleanFilename

SpecSanitizer == InitSanitizer /\ [][NextSanitizer]_vars

-----------------------------------------------------------------------------
(* Properties *)

\* Whether text t holds an `open` atom with a `close` atom somewhere after it.
HasRegion(t, open, close) ==
    \E i \in 1..Len(t) : \E j \in (i + 1)..Len(t) : t[i] = open /\ t[j] = close

\* C1: extraction followed by parsing gives back the JSON value the reply was
\* built around, whatever the prose around it.
ExtractorRoundTrip ==
    pc = "extracted" => extracted.ok /\ extracted.val = embedded

\* C2: every element select_departments returns is a key of the catalog.
DepartmentsInCatalog ==
    pc = "s1_done" =>
        \A i \in 1..Len(departments_result) :
            /\ departments_result[i].t = "str"
            /\ departments_result[i].v \in available_departments

\* C2 witness: a non-empty result from a reply that also named a department
\* the catalog does not hold.
DepartmentsInCatalogWitness ==
    /\ pc = "s1_done"
    /\ departments_result # <<>>
    /\ \E i \in 1..Len(response.text) : response.text[i] = "Astrology"

\* Whether the reply holds, between some "[" and some "]", a JSON array that
\* lists a catalog key.
ReplyListsCatalogName(r) ==
    /\ r.some
    /\ \E i \in 1..Len(r.text) : \E j \in (i + 1)..Len(r.text) :
        /\ r.text[i] = "["
        /\ r.text[j] = "]"
        /\ LET p == JsonLoads(SubSeq(r.text, i, j))
           IN  /\ p.ok
               /\ \E k \in 1..Len(p.val.v) :
                    /\ p.val.v[k].t = "str"
                    /\ p.val.v[k].v \in available_departments

\* C3: select_departments returns at most 3 names, and a non-empty list
\* whenever the reply holds a JSON array that lists a catalog key.
DepartmentsEmptyOnlyWithoutMatch ==
    pc = "s1_done" =>
        /\ Len(departments_result) <= 3
        /\ ReplyListsCatalogName(response) => departments_result # <<>>

\* C4: against a service that always raises, the client makes exactly
\* max_retries calls, returns None, and sleeps 2^attempt between attempts,
\* each delay longer than the one before.
ClientAlwaysFailing ==
    (pc = "client_done" /\ stub.fails >= max_retries) =>
        /\ ~api.some
        /\ api.calls = max_retries
        /\ Len(api.sleeps) = max_retries - 1
        /\ \A i \in 1..Len(api.sleeps) : api.sleeps[i] = 2 ^ (i - 1)
        /\ \A i \in 1..(Len(api.sleeps) - 1) : api.sleeps[i] < api.sleeps[i + 1]

\* C4 witness: an always-failing run long enough to sleep at least twice.
ClientAlwaysFailingWitness ==
    /\ pc = "client_done"
    /\ stub.fails >= max_retries
    /\ ~api.some
    /\ Len(api.sleeps) >= 2

\* C5: against a service that raises k < max_retries times and then replies,
\* the client returns that reply after exactly k + 1 calls.
ClientTransientFailure ==
    (pc = "client_done" /\ stub.fails < max_retries) =>
        /\ api.some
        /\ api.text = stub.text
        /\ api.calls = stub.fails + 1

\* C5 witness: a reply returned on the last attempt allowed, after failures.
ClientTransientFailureWitness ==
    /\ pc = "client_done"
    /\ stub.fails >= 2
    /\ stub.fails = max_retries - 1
    /\ api.some
    /\ stub.text # <<>>

\* C6: create_learning_roadmap on an empty course list returns the error
\* result and calls the completion service zero times.
EmptyCoursesNoCall ==
    (pc = "s3_done" /\ courses_with_prereqs = <<>>) =>
        /\ roadmap_result = RoadmapError("No courses provided for roadmap creation")
        /\ api.calls = 0
        /\ invocations = 0

\* C6 witness: the roadmap stage returned on an empty course list.
EmptyCoursesNoCallWitness ==
    /\ pc = "s3_done"
    /\ courses_with_prereqs = <<>>
    /\ roadmap_result.error

\* C7: no stage ever leaves through a fault.
NoFaultEscapes == pc # "raised"

RECURSIVE Flatten(_, _)
\* The courses of log entries 1..n, in order.
Flatten(log, n) ==
    IF n = 0 THEN <<>>
    ELSE Flatten(log, n - 1)
         \o (IF log[n].outcome = "selected" THEN log[n].courses ELSE <<>>)

\* C8: a reply without a bracket-delimited region gives each stage's failure
\* sentinel: no departments, no courses for the department, an error result.
NoRegionYieldsSentinel ==
    /\ (pc = "s1_done" /\ response.some /\ ~HasRegion(response.text, "[", "]"))
        => departments_result = <<>>
    /\ (pc = "s2_loop" /\ response.some /\ ~HasRegion(response.text, "[", "]"))
        => /\ dept_log[Len(dept_log)].outcome = "unparseable"
           /\ dept_log[Len(dept_log)].courses = <<>>
           /\ all_selected_courses = Flatten(dept_log, Len(dept_log) - 1)
    /\ (pc = "s3_done" /\ response.some /\ ~HasRegion(response.text, "{", "}"))
        => roadmap_result.error

\* C8 witness: a second department whose reply had no bracket region, after a
\* first one that gave courses.
NoRegionYieldsSentinelWitness ==
    /\ pc = "s2_loop"
    /\ response.some
    /\ response.text # <<>>
    /\ ~HasRegion(response.text, "[", "]")
    /\ Len(dept_log) = 2
    /\ dept_log[1].courses # <<>>
    /\ all_selected_courses = dept_log[1].courses

\* C9: a department without corpus, with a failed completion or with an
\* unparseable reply does not stop the others: every department is gone
\* through in order, and the result is the concatenation, in that order, of
\* the course lists extracted for the departments that succeeded.
CoursesConcatenatedInOrder ==
    pc \in {"s2_loop", "s2_call", "s2_done"} =>
        /\ Len(dept_log) = dept_index - 1
        /\ \A i \in 1..Len(dept_log) : dept_log[i].department = selected_departments[i]
        /\ all_selected_courses = Flatten(dept_log, Len(dept_log))
        /\ pc = "s2_done" => Len(dept_log) = Len(selected_departments)

\* C9 witness: the first department had no corpus, the second gave courses.
CoursesConcatenatedInOrderWitness ==
    /\ pc = "s2_done"
    /\ Len(dept_log) = 2
    /\ dept_log[1].outcome = "no_corpus"
    /\ dept_log[2].outcome = "selected"
    /\ all_selected_courses # <<>>

\* How often course c stands in group g.
Occurrences(g, c) == Cardinality({i \in 1..Len(g) : g[i] = c})

\* The groups course c stands in.
GroupsOf(c) == {k \in DOMAIN departments : Occurrences(departments[k], c) > 0}

\* C10: a record that lists N department names stands in N groups, once in
\* the group of each listed name; a record without names stands in "Others"
\* only.
RecordInEachListedGroup ==
    pc = "split_done" =>
        \A c \in 1..Len(courses_data) :
            LET names == DepartmentNames(courses_data[c])
            IN  IF names = <<>>
                THEN GroupsOf(c) = {Others} /\ Occurrences(departments[Others], c) = 1
                ELSE /\ Cardinality(GroupsOf(c)) = Len(names)
                     /\ \A i \in 1..Len(names) :
                          /\ clean_filename(names[i]) \in DOMAIN departments
                          /\ Occurrences(departments[clean_filename(names[i])], c) = 1

\* C11: whatever department name clean_filename is given, the identifier it
\* returns holds no character of invalid_chars, no blank and no two
\* underscores in a row; the name C/D:E comes back as C_D_E.
SanitizedIdentifier ==
    pc = "cleaned" =>
        /\ \A i \in 1..Len(clean_dept_name) :
              clean_dept_name[i] \notin invalid_chars \cup {" "}
        /\ \A i \in 1..(Len(clean_dept_name) - 1) :
              ~(clean_dept_name[i] = "_" /\ clean_dept_name[i + 1] = "_")
        /\ (dept_name = <<"C", "/", "D", ":", "E">>
              => clean_dept_name = <<"C", "_", "D", "_", "E">>)

\* C11 witness: a name of three forbidden characters has been sanitized to
\* a single underscore.
SanitizedIdentifierWitness ==
    /\ pc = "cleaned"
    /\ dept_name = <<"/", ":", "*">>
    /\ clean_dept_name = <<"_">>

\* C12: a stage invocation, and the processing of one department in
\* select_courses_with_prerequisites, invokes _call_claude_api at most once;
\* that invocation makes at most DefaultMaxRetries service calls, and the
\* call that returned a reply text is the last one, whatever extraction and
\* parsing then make of the reply.
NoRetryOnShapeError ==
    /\ invocations <= 1
    /\ api.calls <= DefaultMaxRetries
    /\ api.some => api.calls = stub.fails + 1
    /\ pc \in {"s1_done", "s2_loop", "s3_done"} => response = api

\* C12 witness: the second department of select_courses_with_prerequisites
\* got, on the last allowed service call, a reply with no bracketed region;
\* the department is logged as unparseable after a single invocation.
NoRetryOnShapeErrorWitness ==
    /\ pc = "s2_loop"
    /\ Len(dept_log) = 2
    /\ invocations = 1
    /\ api.some
    /\ api.calls = DefaultMaxRetries
    /\ ~SearchArray(api.text).found
    /\ dept_log[2].outcome = "unparseable"

\* Whether an element of the parsed array is a key of the catalog.
IsCatalogKey(e) == e.t = "str" /\ e.v \in available_departments

\* C13: when the region taken from the reply parses to a JSON array,
\* select_departments returns the first three (or all, if fewer) of those
\* elements of the array that are catalog keys, in the order of the reply.
FilterThenTruncate ==
    (pc = "s1_done" /\ Truthy(response) /\ ExtractArray(response.text).ok) =>
        LET keys == SelectSeq(ExtractArray(response.text).val.v, IsCatalogKey)
        IN  departments_result = SubSeq(keys, 1, Min(3, Len(keys)))

====
